---- MODULE Spec2Model ----
(***************************************************************************)
(* Verification model of the linked-list collection.                       *)
(*                                                                         *)
(* This part models src/src/third.rs, the persistent singly-linked stack   *)
(* whose nodes are shared through Rc.  The heap is a map from node         *)
(* identities to Rc boxes (strong count, element, next link); list handles *)
(* and iterators are the values a single-threaded client holds.  Drop for  *)
(* List<T> is modelled one loop iteration per step so that the order of    *)
(* releases is visible.                                                    *)
(*                                                                         *)
(* The single-owner containers (src/src/first.rs, second.rs, fifth.rs and  *)
(* fifth_unsafe.rs) are modelled over the same heap, with every node in a  *)
(* Box (one owner, count 1).  A client of these owns one container, held   *)
(* as the only entry of `lists`; `built` then holds the elements pushed    *)
(* and not yet popped, oldest first.                                       *)
(***************************************************************************)
EXTENDS Integers, Sequences, FiniteSets, TLC

\* ---------------------------------------------------------------- bounds
\* clients that build, share and drop lists (Spec)
MaxNodes    == 3     \* nodes ever allocated (= appends performed)
MaxHandles  == 3     \* List<T> values alive at the same time
\* clients that also iterate (SpecIter)
IterNodes   == 2     \* nodes ever allocated
IterHandles == 2     \* List<T> values alive at the same time
MaxIters    == 1     \* Iter values alive at the same time
\* clients that build lists by append and run several iterators side by
\* side (SpecPair)
PairNodes   == 2     \* nodes ever allocated
PairHandles == 3     \* List<T> values alive at the same time
PairIters   == 2     \* Iter values alive at the same time
\* clients of one owning stack or queue (SpecOwn)
OwnNodes    == 3     \* nodes ever allocated (= pushes performed)
\* clients that also peek into and iterate over the container (SpecView)
ViewNodes   == 3     \* nodes ever allocated
ViewIters   == 2     \* iterators ever created

\* the identities an Rc box can get
Nodes == 1..MaxNodes

\* The element type T.  The code is generic in T and never inspects an
\* element, so two distinguishable values show every reordering, loss or
\* duplication of elements.
T == {0, 1}

\* Link<T> = Option<Rc<Node<T>>>: NULL is None, a node identity is Some(rc)
NULL == 0

VARIABLES
    heap,     \* node identity -> Rc box: state, strong count, elem, next
    lists,    \* the live List<T> values, in the order they were created
    iters,    \* the live Iter values, in the order they were created
    dropst,   \* the running List::drop: position and local `head`
    rel,      \* nodes released by the last step, with their next link then
    ret,      \* the last call and what it returned
    built     \* history: for each live list, the values appended to build
              \* it, latest first

vars == <<heap, lists, iters, dropst, rel, ret, built>>

\* ------------------------------------------------------------ data types
\* struct Node<T> { elem, next } inside an Rc with a strong count
FreeSlot == [st |-> "free", rc |-> 0, elem |-> 0, next |-> NULL]
DeadNode == [st |-> "dead", rc |-> 0, elem |-> 0, next |-> NULL]
Node(e, n) == [st |-> "live", rc |-> 1, elem |-> e, next |-> n]

\* Option<T>
None == [some |-> FALSE, val |-> 0]
Some(x) == [some |-> TRUE, val |-> x]

\* struct List<T> { head }
List(h) == [head |-> h]

\* struct Iter { next }, with the list it borrows (src) and, as history,
\* the elements it has yielded (out)
Iter(s, n) == [src |-> s, next |-> n, out |-> <<>>]

Idle == [pc |-> "idle", head |-> NULL]

\* --------------------------------------------------------------- Rc<T>
Allocated(hp) == {n \in Nodes : hp[n].st # "free"}
LiveNodes(hp) == {n \in Nodes : hp[n].st = "live"}

\* Rc::new: the box gets the next unused identity, strong count 1
RcNew(hp, nd) ==
    LET n == Cardinality(Allocated(hp)) + 1
    IN  [heap |-> [hp EXCEPT ![n] = nd], rc |-> n]

\* Faulty variant of RcClone: the pointer is copied without counting the
\* new reference.
RcClone_nocount(hp, n) == hp

\* Option<Rc<_>>::clone: one more strong reference to the same box
RcClone(hp, n) ==
    IF n = NULL THEN hp ELSE [hp EXCEPT ![n].rc = @ + 1]

\* drop of an Option<Rc<Node<T>>>: the count goes down by one; at zero the
\* Node value is dropped in place, which drops its `next` field in turn
\* (the compiler-generated nested release).  d is the nesting depth.
RECURSIVE RcDrop(_, _, _)
RcDrop(hp, n, d) ==
    IF n = NULL \/ hp[n].st # "live" THEN [heap |-> hp, rel |-> <<>>]
    ELSE IF hp[n].rc > 1
    THEN [heap |-> [hp EXCEPT ![n].rc = @ - 1], rel |-> <<>>]
    ELSE LET r == RcDrop([hp EXCEPT ![n] = DeadNode], hp[n].next, d + 1)
         IN  [heap |-> r.heap,
              rel  |-> <<[node |-> n, next |-> hp[n].next, depth |-> d]>>
                       \o r.rel]

\* ------------------------------------------------------- impl List<T>
\* List::new
List_new == List(NULL)

\* Faulty variant of List_append: the head is moved out of self instead of
\* cloned (as a push on an owning stack does).
List_append_take(hp, self, elem) ==
    LET r == RcNew(hp, Node(elem, self.head))
    IN  [heap |-> r.heap, list |-> List(r.rc), self |-> List(NULL)]

\* Faulty variant of List_append: the new node is not linked to self.head.
List_append_nolink(hp, self, elem) ==
    LET r == RcNew(hp, Node(elem, NULL))
    IN  [heap |-> r.heap, list |-> List(r.rc), self |-> self]

\* Faulty variant of List_append: the new node's next is the new node.
List_append_cyclic(hp, self, elem) ==
    LET n == Cardinality(Allocated(hp)) + 1
        r == RcNew(hp, Node(elem, n))
    IN  [heap |-> r.heap, list |-> List(r.rc), self |-> self]

\* Faulty variant of List_append: the head node of self is copied into a
\* new node instead of being shared.
List_append_copy(hp, self, elem) ==
    IF self.head = NULL
    THEN LET r == RcNew(hp, Node(elem, NULL))
         IN  [heap |-> r.heap, list |-> List(r.rc), self |-> self]
    ELSE LET hp1 == RcClone(hp, hp[self.head].next)
             c   == RcNew(hp1, Node(hp[self.head].elem, hp[self.head].next))
             r   == RcNew(c.heap, Node(elem, c.rc))
         IN  [heap |-> r.heap, list |-> List(r.rc), self |-> self]

\* List::append: a new Rc'd node holding elem, whose next is a clone of
\* self.head; self is only borrowed (&self) and is handed back as it was
List_append(hp, self, elem) ==
    LET hp1 == RcClone(hp, self.head)
        r   == RcNew(hp1, Node(elem, self.head))
    IN  [heap |-> r.heap, list |-> List(r.rc), self |-> self]

\* Faulty variant of List_tail: None also when the head has no successor.
List_tail_none_at_end(hp, self) ==
    IF self.head = NULL \/ hp[self.head].next = NULL
    THEN [heap |-> hp, res |-> None, self |-> self]
    ELSE [heap |-> RcClone(hp, hp[self.head].next),
          res  |-> Some(List(hp[self.head].next)),
          self |-> self]

\* Faulty variant of List_tail: the handle is on a clone of the head itself.
List_tail_head(hp, self) ==
    IF self.head = NULL
    THEN [heap |-> hp, res |-> None, self |-> self]
    ELSE [heap |-> RcClone(hp, self.head),
          res  |-> Some(List(self.head)),
          self |-> self]

\* Faulty variant of List_tail: the empty list gets an empty list, not None.
List_tail_some(hp, self) ==
    IF self.head = NULL
    THEN [heap |-> hp, res |-> Some(List(NULL)), self |-> self]
    ELSE [heap |-> RcClone(hp, hp[self.head].next),
          res  |-> Some(List(hp[self.head].next)),
          self |-> self]

\* Faulty variant of List_tail: the handle points at head.next without
\* cloning the Rc.
List_tail_borrow(hp, self) ==
    IF self.head = NULL
    THEN [heap |-> hp, res |-> None, self |-> self]
    ELSE [heap |-> hp,
          res  |-> Some(List(hp[self.head].next)),
          self |-> self]

\* List::tail: None for the empty list, else a handle on a clone of
\* head.next
List_tail(hp, self) ==
    IF self.head = NULL
    THEN [heap |-> hp, res |-> None, self |-> self]
    ELSE [heap |-> RcClone(hp, hp[self.head].next),
          res  |-> Some(List(hp[self.head].next)),
          self |-> self]

\* List::head: a view of the first element, None for the empty list
List_head(hp, self) ==
    IF self.head = NULL THEN None ELSE Some(hp[self.head].elem)

\* Faulty variant of List_iter: the iterator starts on the node after the
\* head.
List_iter_skip(hp, self, s) ==
    Iter(s, IF self.head = NULL THEN NULL ELSE hp[self.head].next)

\* List::iter: an iterator positioned on the head node (s names the
\* borrowed handle)
List_iter(hp, self, s) == Iter(s, self.head)

\* Faulty variant of Iter_next: iteration stops at the node that has no
\* successor, without yielding it.
Iter_next_early(hp, it) ==
    IF it.next = NULL \/ hp[it.next].next = NULL
    THEN [it |-> it, res |-> None]
    ELSE [it  |-> [it EXCEPT !.next = hp[it.next].next,
                             !.out  = Append(@, hp[it.next].elem)],
          res |-> Some(hp[it.next].elem)]

\* Iterator::next for Iter: yields the current node's elem and moves to
\* its next; None when there is no current node
Iter_next(hp, it) ==
    IF it.next = NULL
    THEN [it |-> it, res |-> None]
    ELSE [it  |-> [it EXCEPT !.next = hp[it.next].next,
                             !.out  = Append(@, hp[it.next].elem)],
          res |-> Some(hp[it.next].elem)]

\* Faulty variant of Drop_body: the node is unwrapped and released without looking
\* at its strong count.
Drop_body_unchecked(hp, n) ==
    [heap |-> [hp EXCEPT ![n] = DeadNode],
     head |-> hp[n].next,
     rel  |-> <<[node |-> n, next |-> NULL, depth |-> 0]>>,
     brk  |-> FALSE]

\* Faulty variant of Drop_body: when the node is still shared, the Err(rc) is
\* forgotten instead of dropped, so the strong count is not decremented.
Drop_body_leak(hp, n) ==
    IF hp[n].rc = 1
    THEN [heap |-> [hp EXCEPT ![n] = DeadNode],
          head |-> hp[n].next,
          rel  |-> <<[node |-> n, next |-> NULL, depth |-> 0]>>,
          brk  |-> FALSE]
    ELSE [heap |-> hp, head |-> NULL, rel |-> <<>>, brk |-> TRUE]

\* Faulty variant of Drop_body: no loop, the head Rc is simply dropped, which is
\* what the compiler-generated drop of List<T> does.
Drop_body_recursive(hp, n) ==
    LET r == RcDrop(hp, n, 0)
    IN  [heap |-> r.heap, head |-> NULL, rel |-> r.rel, brk |-> TRUE]

\* Faulty variant of Drop_body: the loop does not stop at a node that is
\* still shared but gives up its reference and walks on to the next.
Drop_body_through(hp, n) ==
    IF hp[n].rc = 1
    THEN [heap |-> [hp EXCEPT ![n] = DeadNode],
          head |-> hp[n].next,
          rel  |-> <<[node |-> n, next |-> NULL, depth |-> 0]>>,
          brk  |-> FALSE]
    ELSE [heap |-> [hp EXCEPT ![n].rc = @ - 1],
          head |-> hp[n].next, rel |-> <<>>, brk |-> FALSE]

\* Faulty variant of Drop_body: the next link is taken out of the node
\* also when the node is still shared.
Drop_body_detach(hp, n) ==
    IF hp[n].rc = 1
    THEN [heap |-> [hp EXCEPT ![n] = DeadNode],
          head |-> hp[n].next,
          rel  |-> <<[node |-> n, next |-> NULL, depth |-> 0]>>,
          brk  |-> FALSE]
    ELSE [heap |-> [hp EXCEPT ![n].rc = @ - 1, ![n].next = NULL],
          head |-> NULL, rel |-> <<>>, brk |-> TRUE]

\* One iteration of the loop of Drop for List<T>, entered with
\* head = Some(n).  Rc::try_unwrap succeeds iff the strong count is 1: the
\* node is moved out, head becomes node.next.take(), and the node is
\* dropped with an empty next.  Otherwise the Err(rc) is dropped (one
\* strong reference less) and the loop breaks.
Drop_body(hp, n) ==
    IF hp[n].rc = 1
    THEN [heap |-> [hp EXCEPT ![n] = DeadNode],
          head |-> hp[n].next,
          rel  |-> <<[node |-> n, next |-> NULL, depth |-> 0]>>,
          brk  |-> FALSE]
    ELSE LET r == RcDrop(hp, n, 0)
         IN  [heap |-> r.heap, head |-> NULL, rel |-> r.rel, brk |-> TRUE]

\* ------------------------------------------------------------- client
LiveHandles == 1..Len(lists)
LiveIters   == 1..Len(iters)

\* s without its k-th entry
Remove(s, k) == [j \in 1..(Len(s) - 1) |-> IF j < k THEN s[j] ELSE s[j + 1]]

\* the position of handle h once handle d is gone
Shift(h, d) == IF h > d THEN h - 1 ELSE h

Ret(op, res) == [op |-> op, res |-> res]

Init ==
    /\ heap = [n \in Nodes |-> FreeSlot]
    /\ lists = <<>>
    /\ iters = <<>>
    /\ dropst = Idle
    /\ rel = <<>>
    /\ ret = Ret("init", None)
    /\ built = <<>>

\* let l = List::new();
NewOp ==
    /\ dropst.pc = "idle"
    /\ lists' = Append(lists, List_new)
    /\ built' = Append(built, <<>>)
    /\ ret' = Ret("new", None)
    /\ rel' = <<>>
    /\ UNCHANGED <<heap, iters, dropst>>

\* let l2 = l.append(v);
AppendOp(h, v) ==
    /\ dropst.pc = "idle"
    /\ h \in LiveHandles
    /\ Cardinality(Allocated(heap)) < Cardinality(Nodes)
    /\ LET r == List_append(heap, lists[h], v)
       IN  /\ heap' = r.heap
           /\ lists' = Append([lists EXCEPT ![h] = r.self], r.list)
    /\ built' = Append(built, <<v>> \o built[h])
    /\ ret' = Ret("append", None)
    /\ rel' = <<>>
    /\ UNCHANGED <<iters, dropst>>

\* let t = l.tail();
TailOp(h) ==
    /\ dropst.pc = "idle"
    /\ h \in LiveHandles
    /\ LET r == List_tail(heap, lists[h])
       IN  IF r.res.some
           THEN /\ heap' = r.heap
                /\ lists' = Append([lists EXCEPT ![h] = r.self], r.res.val)
                /\ built' = Append(built, SubSeq(built[h], 2, Len(built[h])))
                /\ ret' = Ret("tail", Some(0))
           ELSE /\ heap' = r.heap
                /\ lists' = [lists EXCEPT ![h] = r.self]
                /\ built' = built
                /\ ret' = Ret("tail", None)
    /\ rel' = <<>>
    /\ UNCHANGED <<iters, dropst>>

\* l.head()
HeadOp(h) ==
    /\ dropst.pc = "idle"
    /\ h \in LiveHandles
    /\ ret' = Ret("head", List_head(heap, lists[h]))
    /\ rel' = <<>>
    /\ UNCHANGED <<heap, lists, iters, dropst, built>>

\* let it = l.iter();
IterOp(h) ==
    /\ dropst.pc = "idle"
    /\ h \in LiveHandles
    /\ iters' = Append(iters, List_iter(heap, lists[h], h))
    /\ ret' = Ret("iter", None)
    /\ rel' = <<>>
    /\ UNCHANGED <<heap, lists, dropst, built>>

\* it.next()
NextOp(i) ==
    /\ dropst.pc = "idle"
    /\ i \in LiveIters
    /\ LET r == Iter_next(heap, iters[i])
       IN  /\ iters' = [iters EXCEPT ![i] = r.it]
           /\ ret' = Ret("next", r.res)
    /\ rel' = <<>>
    /\ UNCHANGED <<heap, lists, dropst, built>>

\* the iterator goes out of scope, which ends its borrow of the list
IterEnd(i) ==
    /\ dropst.pc = "idle"
    /\ i \in LiveIters
    /\ iters' = Remove(iters, i)
    /\ ret' = Ret("iterend", None)
    /\ rel' = <<>>
    /\ UNCHANGED <<heap, lists, dropst, built>>

\* A list handle goes out of scope: Drop::drop starts with
\* `let mut head = self.head.take()`, after which the handle holds nothing.
\* A handle borrowed by an iterator cannot be dropped (the borrow checker
\* rejects it).  With an empty list the loop is not entered.
DropBegin(h) ==
    /\ dropst.pc = "idle"
    /\ h \in LiveHandles
    /\ \A i \in LiveIters : iters[i].src # h
    /\ dropst' = IF lists[h].head = NULL THEN Idle
                 ELSE [pc |-> "loop", head |-> lists[h].head]
    /\ lists' = Remove(lists, h)
    /\ built' = Remove(built, h)
    /\ iters' = [i \in LiveIters |->
                    [iters[i] EXCEPT !.src = Shift(iters[i].src, h)]]
    /\ ret' = Ret("drop", None)
    /\ rel' = <<>>
    /\ UNCHANGED heap

\* One iteration of `while let Some(node) = head`; when the body breaks
\* or leaves head empty the loop is over.
DropStep ==
    /\ dropst.pc = "loop"
    /\ LET r == Drop_body(heap, dropst.head)
       IN  /\ heap' = r.heap
           /\ rel' = r.rel
           /\ dropst' = IF r.brk \/ r.head = NULL THEN Idle
                        ELSE [pc |-> "loop", head |-> r.head]
    /\ ret' = Ret("drop", Some(dropst.head))
    /\ UNCHANGED <<lists, iters, built>>

\* The exploration is bounded: at most maxN nodes are ever allocated and at
\* most maxH list handles are alive at a time.
RoomForNode(maxN) == Cardinality(Allocated(heap)) < maxN
RoomForList(maxH) == Len(lists) < maxH

\* the calls on lists, within the bounds
ListCalls(maxN, maxH) ==
    \/ RoomForList(maxH) /\ NewOp
    \/ \E h \in LiveHandles, v \in T :
          RoomForNode(maxN) /\ RoomForList(maxH) /\ AppendOp(h, v)
    \/ \E h \in LiveHandles :
          (RoomForList(maxH) \/ lists[h].head = NULL) /\ TailOp(h)
    \/ \E h \in LiveHandles : HeadOp(h)
    \/ \E h \in LiveHandles : DropBegin(h)
    \/ DropStep

\* clients that build, share and drop lists
Next == ListCalls(MaxNodes, MaxHandles)

Spec == Init /\ [][Next]_vars

\* clients that also iterate
NextIter ==
    \/ ListCalls(IterNodes, IterHandles)
    \/ \E h \in LiveHandles : Len(iters) < MaxIters /\ IterOp(h)
    \/ \E i \in LiveIters : NextOp(i)
    \/ \E i \in LiveIters : IterEnd(i)

SpecIter == Init /\ [][NextIter]_vars

\* clients that build lists by append and run several iterators side by
\* side
NextPair ==
    \/ RoomForList(PairHandles) /\ NewOp
    \/ \E h \in LiveHandles, v \in T :
          RoomForNode(PairNodes) /\ RoomForList(PairHandles) /\ AppendOp(h, v)
    \/ \E h \in LiveHandles : Len(iters) < PairIters /\ IterOp(h)
    \/ \E i \in LiveIters : NextOp(i)
    \/ \E i \in LiveIters : IterEnd(i)

SpecPair == Init /\ [][NextPair]_vars

TypeOK ==
    /\ \A n \in Nodes : /\ heap[n].st \in {"free", "live", "dead"}
                        /\ heap[n].next \in Nodes \cup {NULL}
                        /\ heap[n].rc \in 0..(MaxNodes + MaxHandles)
                        /\ heap[n].elem \in T
    /\ Len(lists) <= MaxHandles /\ Len(built) = Len(lists)
    /\ \A h \in LiveHandles : lists[h].head \in Nodes \cup {NULL}
    /\ \A i \in LiveIters : iters[i].src \in LiveHandles

\* ------------------------------------------- Box<Node>, owning links
\* Box::new: the box gets the next unused identity
BoxNew(hp, nd) == RcNew(hp, nd)

\* the box of node n is freed after its fields were moved out
BoxFree(hp, n) == [hp EXCEPT ![n] = DeadNode]

\* the compiler-generated drop of an owning link (Link / Option<Box<Node>>):
\* the Node in the box is dropped in place, which drops its `next` field in
\* turn, nested inside the drop of the node.  d is the nesting depth.
RECURSIVE BoxDrop(_, _, _)
BoxDrop(hp, n, d) ==
    IF n = NULL \/ hp[n].st # "live" THEN [heap |-> hp, rel |-> <<>>]
    ELSE LET r == BoxDrop(BoxFree(hp, n), hp[n].next, d + 1)
         IN  [heap |-> r.heap,
              rel  |-> <<[node |-> n, next |-> hp[n].next, depth |-> d]>>
                       \o r.rel]

\* the release of a box whose next link was moved out first
Released(n) == <<[node |-> n, next |-> NULL, depth |-> 0]>>

\* ------------------------------------------------- first.rs: impl List
\* List::new
First_new == [kind |-> "first", head |-> NULL]

\* List::push: the new node's next is the old head, taken out of self with
\* mem::replace; the new node becomes the head
First_push(hp, self, x) ==
    LET r == BoxNew(hp, Node(x, self.head))
    IN  [heap |-> r.heap, self |-> [self EXCEPT !.head = r.rc]]

\* List::pop: None on Link::Empty; else the head becomes node.next, the
\* element is returned and the emptied box is freed
First_pop(hp, self) ==
    IF self.head = NULL
    THEN [heap |-> hp, self |-> self, res |-> None, rel |-> <<>>]
    ELSE [heap |-> BoxFree(hp, self.head),
          self |-> [self EXCEPT !.head = hp[self.head].next],
          res  |-> Some(hp[self.head].elem),
          rel  |-> Released(self.head)]

\* One iteration of the loop of Drop for List, entered with
\* cur_link = Link::More(n): cur_link becomes the node's next, replaced in
\* the node by Link::Empty, and the node is dropped.
First_drop_body(hp, n) ==
    [heap |-> BoxFree(hp, n), head |-> hp[n].next, rel |-> Released(n),
     brk |-> FALSE]

\* ---------------------------------------------- second.rs: impl List<T>
\* List::new
Second_new == [kind |-> "second", head |-> NULL]

\* List::push: the new node's next is self.head.take()
Second_push(hp, self, x) ==
    LET r == BoxNew(hp, Node(x, self.head))
    IN  [heap |-> r.heap, self |-> [self EXCEPT !.head = r.rc]]

\* Faulty variant of Second_pop: the head is not set to node.next, so the
\* rest of the stack is dropped with the node.
Second_pop_lose(hp, self) ==
    IF self.head = NULL
    THEN [heap |-> hp, self |-> self, res |-> None, rel |-> <<>>]
    ELSE LET r == BoxDrop(hp, self.head, 0)
         IN  [heap |-> r.heap,
              self |-> [self EXCEPT !.head = NULL],
              res  |-> Some(hp[self.head].elem),
              rel  |-> r.rel]

\* List::pop: self.head.take().map(|node| { self.head = node.next;
\* node.elem })
Second_pop(hp, self) ==
    IF self.head = NULL
    THEN [heap |-> hp, self |-> self, res |-> None, rel |-> <<>>]
    ELSE [heap |-> BoxFree(hp, self.head),
          self |-> [self EXCEPT !.head = hp[self.head].next],
          res  |-> Some(hp[self.head].elem),
          rel  |-> Released(self.head)]

\* One iteration of the loop of Drop for List<T>:
\* cur_link = boxed_node.next.take(), then boxed_node is dropped.
Second_drop_body(hp, n) ==
    [heap |-> BoxFree(hp, n), head |-> hp[n].next, rel |-> Released(n),
     brk |-> FALSE]

\* ------------------------------------------ fifth_unsafe.rs: impl Queue<T>
\* Queue::new: head None, tail a null raw pointer
Queue_new == [kind |-> "fifth_unsafe", head |-> NULL, tail |-> NULL]

\* Faulty variant of Queue_push: the new node is linked in front of the
\* head.
Queue_push_front(hp, self, x) ==
    LET r == BoxNew(hp, Node(x, self.head))
    IN  [heap |-> r.heap,
         self |-> [self EXCEPT !.head = r.rc,
                               !.tail = IF self.tail = NULL THEN r.rc ELSE @]]

\* Queue::push: a new node with no next; it becomes the head when the tail
\* pointer is null, else it is written through the raw tail pointer into
\* (*self.tail).next; the tail pointer then points at it
Queue_push(hp, self, x) ==
    LET r == BoxNew(hp, Node(x, NULL))
    IN  IF self.tail = NULL
        THEN [heap |-> r.heap,
              self |-> [self EXCEPT !.head = r.rc, !.tail = r.rc]]
        ELSE [heap |-> [r.heap EXCEPT ![self.tail].next = r.rc],
              self |-> [self EXCEPT !.tail = r.rc]]

\* Faulty variant of Queue_pop: the tail pointer is not nulled when the last
\* node is popped.
Queue_pop_keep_tail(hp, self) ==
    IF self.head = NULL
    THEN [heap |-> hp, self |-> self, res |-> None, rel |-> <<>>]
    ELSE [heap |-> BoxFree(hp, self.head),
          self |-> [self EXCEPT !.head = hp[self.head].next],
          res  |-> Some(hp[self.head].elem),
          rel  |-> Released(self.head)]

\* Queue::pop: None on an empty head; else the tail pointer is nulled if
\* the node has no next, the head becomes node.next and the element is
\* returned
Queue_pop(hp, self) ==
    IF self.head = NULL
    THEN [heap |-> hp, self |-> self, res |-> None, rel |-> <<>>]
    ELSE [heap |-> BoxFree(hp, self.head),
          self |-> [self EXCEPT
                      !.tail = IF hp[self.head].next = NULL THEN NULL ELSE @,
                      !.head = hp[self.head].next],
          res  |-> Some(hp[self.head].elem),
          rel  |-> Released(self.head)]

\* Queue<T> has no Drop impl: dropping it drops the field `head` with the
\* compiler-generated drop of Option<Box<Node<T>>>; the raw tail pointer
\* owns nothing
Queue_drop(hp, self) == BoxDrop(hp, self.head, 0)

\* ------------------------------------------------ fifth.rs: impl Queue
\* Queue::new.  `pinned` is the borrow &'a mut self taken by push, which
\* lasts as long as the queue and forbids every later call.
Fifth_new == [kind |-> "fifth", head |-> NULL, tail |-> NULL,
              pinned |-> FALSE]

\* Queue::push: self.tail.take() is the last node or None; the new node is
\* put into last_node.next, or into self.head for an empty queue; the tail
\* is a reference to the new node
Fifth_push(hp, self, x) ==
    LET r == BoxNew(hp, Node(x, NULL))
    IN  IF self.tail = NULL
        THEN [heap |-> r.heap,
              self |-> [self EXCEPT !.head = r.rc, !.tail = r.rc,
                                    !.pinned = TRUE]]
        ELSE [heap |-> [r.heap EXCEPT ![self.tail].next = r.rc],
              self |-> [self EXCEPT !.tail = r.rc, !.pinned = TRUE]]

\* Queue::pop: the head becomes first_node.next; if that is None the tail
\* is set to None
Fifth_pop(hp, self) ==
    IF self.head = NULL
    THEN [heap |-> hp, self |-> self, res |-> None, rel |-> <<>>]
    ELSE [heap |-> BoxFree(hp, self.head),
          self |-> [self EXCEPT
                      !.head = hp[self.head].next,
                      !.tail = IF hp[self.head].next = NULL THEN NULL ELSE @],
          res  |-> Some(hp[self.head].elem),
          rel  |-> Released(self.head)]

\* Queue has no Drop impl (see Queue_drop)
Fifth_drop(hp, self) == BoxDrop(hp, self.head, 0)

\* ------------------------------------- client of one owning container
Stacks == {"first", "second"}
Queues == {"fifth_unsafe", "fifth"}

\* the container the client owns
Own == lists[1]

\* the borrow checker accepts a call on the container
Callable == Own.kind = "fifth" => ~Own.pinned

\* the state after construction of one container
InitOwn ==
    /\ heap = [n \in Nodes |-> FreeSlot]
    /\ lists \in {<<First_new>>, <<Second_new>>, <<Queue_new>>, <<Fifth_new>>}
    /\ iters = <<>>
    /\ dropst = Idle
    /\ rel = <<>>
    /\ ret = Ret("init", None)
    /\ built = << <<>> >>

\* stack.push(v)
StackPush(v) ==
    /\ dropst.pc = "idle" /\ lists # <<>>
    /\ Own.kind \in Stacks
    /\ Cardinality(Allocated(heap)) < Cardinality(Nodes)
    /\ LET r == IF Own.kind = "first" THEN First_push(heap, Own, v)
                ELSE Second_push(heap, Own, v)
       IN  /\ heap' = r.heap
           /\ lists' = <<r.self>>
    /\ built' = <<Append(built[1], v)>>
    /\ ret' = Ret("push", None)
    /\ rel' = <<>>
    /\ UNCHANGED <<iters, dropst>>

\* stack.pop()
StackPop ==
    /\ dropst.pc = "idle" /\ lists # <<>>
    /\ Own.kind \in Stacks
    /\ LET r == IF Own.kind = "first" THEN First_pop(heap, Own)
                ELSE Second_pop(heap, Own)
       IN  /\ heap' = r.heap
           /\ lists' = <<r.self>>
           /\ ret' = Ret("pop", r.res)
           /\ rel' = r.rel
    /\ built' = <<SubSeq(built[1], 1, Len(built[1]) - 1)>>
    /\ UNCHANGED <<iters, dropst>>

\* The stack goes out of scope: Drop::drop takes the head into cur_link.
StackDropBegin ==
    /\ dropst.pc = "idle" /\ lists # <<>>
    /\ Own.kind \in Stacks
    /\ dropst' = IF Own.head = NULL THEN Idle
                 ELSE [pc |-> Own.kind, head |-> Own.head]
    /\ lists' = <<>>
    /\ built' = <<>>
    /\ ret' = Ret("drop", None)
    /\ rel' = <<>>
    /\ UNCHANGED <<heap, iters>>

\* One iteration of the `while let` loop of the stack's Drop::drop.
StackDropStep ==
    /\ dropst.pc \in Stacks
    /\ LET r == IF dropst.pc = "first" THEN First_drop_body(heap, dropst.head)
                ELSE Second_drop_body(heap, dropst.head)
       IN  /\ heap' = r.heap
           /\ rel' = r.rel
           /\ dropst' = IF r.brk \/ r.head = NULL THEN Idle
                        ELSE [dropst EXCEPT !.head = r.head]
    /\ ret' = Ret("drop", Some(dropst.head))
    /\ UNCHANGED <<lists, iters, built>>

\* queue.push(v)
QueuePush(v) ==
    /\ dropst.pc = "idle" /\ lists # <<>>
    /\ Own.kind \in Queues
    /\ Callable
    /\ Cardinality(Allocated(heap)) < Cardinality(Nodes)
    /\ LET r == IF Own.kind = "fifth_unsafe" THEN Queue_push(heap, Own, v)
                ELSE Fifth_push(heap, Own, v)
       IN  /\ heap' = r.heap
           /\ lists' = <<r.self>>
    /\ built' = <<Append(built[1], v)>>
    /\ ret' = Ret("push", None)
    /\ rel' = <<>>
    /\ UNCHANGED <<iters, dropst>>

\* queue.pop()
QueuePop ==
    /\ dropst.pc = "idle" /\ lists # <<>>
    /\ Own.kind \in Queues
    /\ Callable
    /\ LET r == IF Own.kind = "fifth_unsafe" THEN Queue_pop(heap, Own)
                ELSE Fifth_pop(heap, Own)
       IN  /\ heap' = r.heap
           /\ lists' = <<r.self>>
           /\ ret' = Ret("pop", r.res)
           /\ rel' = r.rel
    /\ built' = <<SubSeq(built[1], 2, Len(built[1]))>>
    /\ UNCHANGED <<iters, dropst>>

\* The queue goes out of scope: its fields are dropped by the
\* compiler-generated code, in one nest of calls.
QueueDrop ==
    /\ dropst.pc = "idle" /\ lists # <<>>
    /\ Own.kind \in Queues
    /\ LET r == IF Own.kind = "fifth_unsafe" THEN Queue_drop(heap, Own)
                ELSE Fifth_drop(heap, Own)
       IN  /\ heap' = r.heap
           /\ rel' = r.rel
    /\ lists' = <<>>
    /\ built' = <<>>
    /\ ret' = Ret("drop", Some(Own.head))
    /\ UNCHANGED <<iters, dropst>>

NextOwn ==
    \/ \E v \in T : RoomForNode(OwnNodes) /\ StackPush(v)
    \/ StackPop
    \/ StackDropBegin
    \/ StackDropStep
    \/ \E v \in T : RoomForNode(OwnNodes) /\ QueuePush(v)
    \/ QueuePop
    \/ QueueDrop

SpecOwn == InitOwn /\ [][NextOwn]_vars

\* ----------------------------------------- second.rs: peek, peek_mut
\* List::peek: self.head.as_ref().map(|node| &node.elem); the result is
\* the element seen through the reference
Second_peek(hp, self) ==
    IF self.head = NULL THEN None ELSE Some(hp[self.head].elem)

\* Faulty variant of Second_peek_mut: the reference is to the element of
\* the node after the head.
Second_peek_mut_next(hp, self) ==
    IF self.head = NULL \/ hp[self.head].next = NULL THEN None
    ELSE Some(hp[self.head].next)

\* List::peek_mut: self.head.as_mut().map(|node| &mut node.elem); the
\* result is the place referred to, the elem field of the head node
Second_peek_mut(hp, self) ==
    IF self.head = NULL THEN None ELSE Some(self.head)

\* `*x = v` through the reference to the elem field of node n
WriteElem(hp, n, v) == [hp EXCEPT ![n].elem = v]

\* ------------------------------------- second.rs: IntoIter and Iter
\* an iterator that has gone out of scope: only what it has yielded is
\* kept, as history
Ended(it) == [kind |-> it.kind, live |-> FALSE, out |-> it.out]

\* List::into_iter: IntoIter(self), the list moves into the iterator.
\* `out` is history: the elements yielded so far.
Second_into_iter(self) ==
    [kind |-> "into_iter", live |-> TRUE, list |-> self, out |-> <<>>]

\* IntoIter::next: self.0.pop()
Second_IntoIter_next(hp, it) ==
    LET r == Second_pop(hp, it.list)
    IN  [heap |-> r.heap,
         it   |-> [it EXCEPT !.list = r.self,
                             !.out = IF r.res.some THEN Append(@, r.res.val)
                                     ELSE @],
         res  |-> r.res,
         rel  |-> r.rel]

\* List::iter: Iter { next: reference to the head node, if any }
Second_iter(hp, self) ==
    [kind |-> "iter", live |-> TRUE, next |-> self.head, out |-> <<>>]

\* Iter::next: self.next.take().map(|node| { self.next = reference to
\* node.next's node; &node.elem })
Second_Iter_next(hp, it) ==
    IF it.next = NULL THEN [it |-> it, res |-> None]
    ELSE [it  |-> [it EXCEPT !.next = hp[it.next].next,
                             !.out = Append(@, hp[it.next].elem)],
          res |-> Some(hp[it.next].elem)]

\* -------------------------------- fifth_unsafe.rs: IntoIter and Iter
\* Queue::into_iter: IntoIter(self)
Queue_into_iter(self) ==
    [kind |-> "into_iter", live |-> TRUE, list |-> self, out |-> <<>>]

\* IntoIter::next: self.0.pop()
Queue_IntoIter_next(hp, it) ==
    LET r == Queue_pop(hp, it.list)
    IN  [heap |-> r.heap,
         it   |-> [it EXCEPT !.list = r.self,
                             !.out = IF r.res.some THEN Append(@, r.res.val)
                                     ELSE @],
         res  |-> r.res,
         rel  |-> r.rel]

\* Faulty variant of Queue_iter: the iterator starts at the node the tail
\* pointer designates.
Queue_iter_tail(hp, self) ==
    [kind |-> "iter", live |-> TRUE, next |-> self.tail, out |-> <<>>]

\* Queue::iter: Iter { next: reference to the head node, if any }
Queue_iter(hp, self) ==
    [kind |-> "iter", live |-> TRUE, next |-> self.head, out |-> <<>>]

\* Iter::next
Queue_Iter_next(hp, it) ==
    IF it.next = NULL THEN [it |-> it, res |-> None]
    ELSE [it  |-> [it EXCEPT !.next = hp[it.next].next,
                             !.out = Append(@, hp[it.next].elem)],
          res |-> Some(hp[it.next].elem)]

\* --------------------------------------- client that peeks and iterates
\* no iterator borrows the container
NoBorrow == \A i \in 1..Len(iters) : ~iters[i].live

\* the state after construction of a generic stack or a raw-pointer queue
InitView ==
    /\ heap = [n \in Nodes |-> FreeSlot]
    /\ lists \in {<<Second_new>>, <<Queue_new>>}
    /\ iters = <<>>
    /\ dropst = Idle
    /\ rel = <<>>
    /\ ret = Ret("init", None)
    /\ built = << <<>> >>

\* list.peek()
PeekOp ==
    /\ dropst.pc = "idle" /\ lists # <<>>
    /\ Own.kind = "second"
    /\ ret' = Ret("peek", Second_peek(heap, Own))
    /\ rel' = <<>>
    /\ UNCHANGED <<heap, lists, iters, dropst, built>>

\* list.peek_mut().map(|x| *x = v); the call reports the element found
PeekMutOp(v) ==
    /\ dropst.pc = "idle" /\ lists # <<>>
    /\ Own.kind = "second"
    /\ NoBorrow
    /\ LET r == Second_peek_mut(heap, Own)
       IN  /\ heap' = IF r.some THEN WriteElem(heap, r.val, v) ELSE heap
           /\ ret' = Ret("peek_mut",
                         IF r.some THEN Some(heap[r.val].elem) ELSE None)
    /\ built' = IF built[1] = <<>> THEN built
                ELSE <<[built[1] EXCEPT ![Len(built[1])] = v]>>
    /\ rel' = <<>>
    /\ UNCHANGED <<lists, iters, dropst>>

\* let mut iter = c.into_iter(): the container moves into the iterator
IntoIterOp ==
    /\ dropst.pc = "idle" /\ lists # <<>>
    /\ NoBorrow
    /\ iters' = Append(iters, IF Own.kind = "second"
                              THEN Second_into_iter(Own)
                              ELSE Queue_into_iter(Own))
    /\ lists' = <<>>
    /\ ret' = Ret("into_iter", None)
    /\ rel' = <<>>
    /\ UNCHANGED <<heap, dropst, built>>

\* iter.next() on an IntoIter
IntoIterNext(i) ==
    /\ dropst.pc = "idle"
    /\ iters[i].live /\ iters[i].kind = "into_iter"
    /\ LET r == IF iters[i].list.kind = "second"
                THEN Second_IntoIter_next(heap, iters[i])
                ELSE Queue_IntoIter_next(heap, iters[i])
       IN  /\ heap' = r.heap
           /\ iters' = [iters EXCEPT ![i] = r.it]
           /\ ret' = Ret("next", r.res)
           /\ rel' = r.rel
    /\ UNCHANGED <<lists, dropst, built>>

\* The IntoIter goes out of scope and with it the container it holds: the
\* stack's Drop::drop takes the head into cur_link, the queue's fields are
\* dropped by the compiler-generated code.
IntoIterDrop(i) ==
    /\ dropst.pc = "idle"
    /\ iters[i].live /\ iters[i].kind = "into_iter"
    /\ iters' = [iters EXCEPT ![i] = Ended(@)]
    /\ IF iters[i].list.kind = "second"
       THEN /\ dropst' = IF iters[i].list.head = NULL THEN Idle
                         ELSE [pc |-> "second", head |-> iters[i].list.head]
            /\ rel' = <<>>
            /\ heap' = heap
       ELSE LET r == Queue_drop(heap, iters[i].list)
            IN  /\ heap' = r.heap
                /\ rel' = r.rel
                /\ dropst' = dropst
    /\ built' = <<>>
    /\ ret' = Ret("drop", None)
    /\ UNCHANGED lists

\* let mut iter = c.iter(): a shared borrow of the container
ViewIterOp ==
    /\ dropst.pc = "idle" /\ lists # <<>>
    /\ iters' = Append(iters, IF Own.kind = "second"
                              THEN Second_iter(heap, Own)
                              ELSE Queue_iter(heap, Own))
    /\ ret' = Ret("iter", None)
    /\ rel' = <<>>
    /\ UNCHANGED <<heap, lists, dropst, built>>

\* iter.next() on an Iter
ViewIterNext(i) ==
    /\ dropst.pc = "idle" /\ lists # <<>>
    /\ iters[i].live /\ iters[i].kind = "iter"
    /\ LET r == IF Own.kind = "second"
                THEN Second_Iter_next(heap, iters[i])
                ELSE Queue_Iter_next(heap, iters[i])
       IN  /\ iters' = [iters EXCEPT ![i] = r.it]
           /\ ret' = Ret("next", r.res)
    /\ rel' = <<>>
    /\ UNCHANGED <<heap, lists, dropst, built>>

\* The Iter goes out of scope: its borrow ends.
ViewIterEnd(i) ==
    /\ dropst.pc = "idle"
    /\ iters[i].live /\ iters[i].kind = "iter"
    /\ iters' = [iters EXCEPT ![i] = Ended(@)]
    /\ ret' = Ret("end", None)
    /\ rel' = <<>>
    /\ UNCHANGED <<heap, lists, dropst, built>>

NextView ==
    \/ \E v \in T : RoomForNode(ViewNodes) /\ NoBorrow /\ StackPush(v)
    \/ NoBorrow /\ StackPop
    \/ \E v \in T : RoomForNode(ViewNodes) /\ NoBorrow /\ QueuePush(v)
    \/ NoBorrow /\ QueuePop
    \/ PeekOp
    \/ \E v \in T : PeekMutOp(v)
    \/ Len(iters) < ViewIters /\ IntoIterOp
    \/ \E i \in 1..Len(iters) : IntoIterNext(i)
    \/ \E i \in 1..Len(iters) : IntoIterDrop(i)
    \/ StackDropStep
    \/ Len(iters) < ViewIters /\ NoBorrow /\ ViewIterOp
    \/ \E i \in 1..Len(iters) : ViewIterNext(i)
    \/ \E i \in 1..Len(iters) : ViewIterEnd(i)

SpecView == InitView /\ [][NextView]_vars

\* ------------------------------------------------------------ helpers
\* what iterating a list yields: List::iter, then Iterator::next until it
\* returns None (at most k steps)
RECURSIVE Collect(_, _, _)
Collect(hp, it, k) ==
    LET r == Iter_next(hp, it)
    IN  IF k = 0 \/ ~r.res.some THEN <<>>
        ELSE <<r.res.val>> \o Collect(hp, r.it, k - 1)

IterSeq(hp, l) == Collect(hp, List_iter(hp, l, 0), MaxNodes + 1)

\* the nodes met by following next links from n (at most k links)
RECURSIVE Reach(_, _, _)
Reach(hp, n, k) ==
    IF n = NULL \/ k = 0 THEN {}
    ELSE {n} \cup Reach(hp, hp[n].next, k - 1)

ReachFrom(hp, n) == Reach(hp, n, MaxNodes + 1)

\* every node the list reaches is allocated
Intact(hp, l) == \A n \in ReachFrom(hp, l.head) : hp[n].st = "live"

\* ------------------------------------------------------------------ C1
\* C1: in every state, also in the middle of a teardown, every node
\* reachable by next links from a live list handle is allocated (not
\* deallocated); and a step of dropping one handle leaves the head and the
\* element sequence of every other live handle unchanged.
C1_NoDanglingUnderSharing ==
    [][ /\ \A h \in 1..Len(lists') : Intact(heap', lists'[h])
        /\ \A d \in LiveHandles : DropBegin(d) =>
              \A h \in LiveHandles \ {d} :
                  /\ lists'[Shift(h, d)] = lists[h]
                  /\ IterSeq(heap', lists[h]) = IterSeq(heap, lists[h])
        /\ DropStep =>
              /\ lists' = lists
              /\ \A h \in LiveHandles :
                    IterSeq(heap', lists[h]) = IterSeq(heap, lists[h]) ]_vars

\* a teardown has just stopped at a node that another live list still
\* reaches, after releasing at least one node of its own
C1_Witness ==
    /\ ret.op = "drop" /\ ret.res.some /\ dropst.pc = "idle"
    /\ heap[ret.res.val].st = "live"
    /\ \E n \in Nodes : heap[n].st = "dead"
    /\ \E h \in LiveHandles :
          /\ ret.res.val \in ReachFrom(heap, lists[h].head)
          /\ lists[h].head # ret.res.val

\* ------------------------------------------------------------------ C2
\* C2: whenever no list handle is left (every handle created has been
\* dropped and no teardown is running), every node ever allocated has been
\* deallocated; and the teardown loop terminates: each iteration after
\* which the loop goes on has deallocated a node.
C2_AllDroppedAllFreed ==
    [][ /\ (dropst'.pc = "idle" /\ lists' = <<>>) => LiveNodes(heap') = {}
        /\ (dropst.pc = "loop" /\ dropst'.pc = "loop")
            => Cardinality(LiveNodes(heap')) < Cardinality(LiveNodes(heap)) ]_vars

\* the last handle has been dropped after nodes were shared: all the nodes
\* that could be allocated were, and none is left
C2_Witness ==
    /\ dropst.pc = "idle" /\ ret.op = "drop"
    /\ lists = <<>>
    /\ Cardinality(Allocated(heap)) >= 3
    /\ LiveNodes(heap) = {}

\* ------------------------------------------------------------------ C3
\* C3: a step releases at most one node, the node it releases has an empty
\* next link at that moment, and the release is not nested inside the
\* release of another node.
C3_IterativeTeardown ==
    /\ Len(rel) <= 1
    /\ \A k \in 1..Len(rel) : rel[k].next = NULL /\ rel[k].depth = 0

\* the loop has released a node that had a successor and goes on with it
C3_Witness ==
    /\ dropst.pc = "loop"
    /\ Len(rel) = 1
    /\ heap[rel[1].node].st = "dead"
    /\ heap[dropst.head].st = "live"

\* the handle returned by the last append or tail
Newest(ls) == ls[Len(ls)]

\* ------------------------------------------------------------------ C4
\* C4: an append on list L leaves the handle L on the same head node, and
\* iterating L afterwards yields the same element sequence as before.
C4_AppendNonDestructive ==
    [][ \A h \in LiveHandles, v \in T : AppendOp(h, v) =>
            /\ lists'[h] = lists[h]
            /\ Intact(heap', lists'[h])
            /\ IterSeq(heap', lists'[h]) = IterSeq(heap, lists[h]) ]_vars

\* an append onto a non-empty list has returned while that list is alive
C4_Witness ==
    /\ ret.op = "append"
    /\ heap[Newest(lists).head].next # NULL
    /\ \E h \in LiveHandles : lists[h].head = heap[Newest(lists).head].next

\* ------------------------------------------------------------------ C5
\* C5: append(L, v) returns a list on a newly allocated node whose element
\* is v and whose next is L's own head node; its head is v and iterating it
\* yields v followed by what iterating L yields.
C5_AppendResult ==
    [][ \A h \in LiveHandles, v \in T : AppendOp(h, v) =>
            LET new == Newest(lists')
            IN  /\ Len(lists') = Len(lists) + 1
                /\ new.head \in Allocated(heap') \ Allocated(heap)
                /\ heap'[new.head].elem = v
                /\ heap'[new.head].next = lists[h].head
                /\ List_head(heap', new) = Some(v)
                /\ IterSeq(heap', new) = <<v>> \o IterSeq(heap, lists[h]) ]_vars

\* as in the scenario L3 = append(tail(L1), v): the new list shares its
\* tail with an older, different list
C5_Witness ==
    /\ ret.op = "append"
    /\ heap[Newest(lists).head].next # NULL
    /\ \E h \in LiveHandles :
          /\ lists[h].head \notin {NULL, Newest(lists).head}
          /\ heap[lists[h].head].next = heap[Newest(lists).head].next

\* ------------------------------------------------------------------ C6
\* C6: tail of a non-empty list L returns a present handle on L's
\* head.next, whose sequence is L's without its first element (the empty
\* list when L has one element); L keeps its head and its sequence, and no
\* node changes its element, its next or its allocation state.
C6_TailResult ==
    [][ \A h \in LiveHandles : (TailOp(h) /\ lists[h].head # NULL) =>
            LET new == Newest(lists')
            IN  /\ ret'.res.some
                /\ Len(lists') = Len(lists) + 1
                /\ new.head = heap[lists[h].head].next
                /\ IterSeq(heap', new) = Tail(IterSeq(heap, lists[h]))
                /\ lists'[h] = lists[h]
                /\ IterSeq(heap', lists'[h]) = IterSeq(heap, lists[h])
                /\ \A n \in Nodes : /\ heap'[n].elem = heap[n].elem
                                    /\ heap'[n].next = heap[n].next
                                    /\ heap'[n].st = heap[n].st ]_vars

\* tail of a one-element list has returned a present, empty list
C6_Witness ==
    /\ ret.op = "tail" /\ ret.res.some
    /\ Newest(lists).head = NULL
    /\ \E h \in LiveHandles : Len(built[h]) = 1

\* ------------------------------------------------------------------ C7
\* head(tail^k(l)), an absent tail propagating as absence
RECURSIVE TailK(_, _, _)
TailK(hp, l, k) ==
    IF k = 0 THEN [heap |-> hp, res |-> Some(l)]
    ELSE LET r == List_tail(hp, l)
         IN  IF r.res.some THEN TailK(r.heap, r.res.val, k - 1)
             ELSE [heap |-> r.heap, res |-> None]

HeadTailK(hp, l, k) ==
    LET r == TailK(hp, l, k)
    IN  IF r.res.some THEN List_head(r.heap, r.res.val) ELSE None

\* C7: for a list built by n appends, head(tail^k) is the (k+1)-th
\* appended value counting from the latest append when k < n, and is absent
\* when k > n.
C7_HeadOfTailK ==
    \A h \in LiveHandles : \A k \in 0..(MaxNodes + 2) :
        /\ k < Len(built[h]) =>
              HeadTailK(heap, lists[h], k) = Some(built[h][k + 1])
        /\ k > Len(built[h]) => HeadTailK(heap, lists[h], k) = None

\* head has been called on the tail of a list whose two latest elements
\* differ, and returned the second
C7_Witness ==
    /\ ret.op = "head" /\ ret.res.some
    /\ \E h, t \in LiveHandles :
          /\ Len(built[h]) >= 2
          /\ built[h][1] # built[h][2]
          /\ lists[t].head = heap[lists[h].head].next
          /\ ret.res.val = built[h][2]

\* ------------------------------------------------------------------ C8
\* C8: on an empty list, tail returns None, head returns None and the first
\* step of an iterator returns None; none of them changes a list handle or
\* the heap (so none allocates).
C8_EmptyAbsent ==
    [][ /\ \A h \in LiveHandles : (TailOp(h) /\ lists[h].head = NULL) =>
              ret'.res = None /\ heap' = heap /\ lists' = lists
        /\ \A h \in LiveHandles : (HeadOp(h) /\ lists[h].head = NULL) =>
              ret'.res = None /\ heap' = heap /\ lists' = lists
        /\ \A i \in LiveIters :
              (NextOp(i) /\ lists[iters[i].src].head = NULL
                         /\ iters[i].out = <<>>) =>
              ret'.res = None /\ heap' = heap /\ lists' = lists ]_vars

\* tail has returned None for an empty list while a node is allocated
C8_Witness ==
    /\ ret.op = "tail" /\ ~ret.res.some
    /\ LiveNodes(heap) # {}
    /\ \E h \in LiveHandles : lists[h].head = NULL

\* ------------------------------------------------------------------ C9
\* C9: when L3 = append(L, w) is made, tail(L3) is a handle on L's own head
\* node and yields L's sequence, and so does the tail of every live list L2
\* whose head was appended onto L; the append allocates the one new node
\* only; and in every state, whatever was dropped before, each live list
\* and its tail yield the full sequences they were built with.
C9_StructuralSharing ==
    [][ /\ \A h \in LiveHandles, w \in T : AppendOp(h, w) =>
              LET t3 == List_tail(heap', Newest(lists'))
              IN  /\ t3.res.some
                  /\ t3.res.val.head = lists'[h].head
                  /\ IterSeq(t3.heap, t3.res.val) = IterSeq(heap, lists[h])
                  /\ Allocated(heap') = Allocated(heap) \cup {Newest(lists').head}
                  /\ \A s \in LiveHandles :
                        (lists[s].head # NULL
                            /\ heap[lists[s].head].next = lists[h].head) =>
                        LET t2 == List_tail(heap', lists'[s])
                        IN  /\ t2.res.some
                            /\ t2.res.val.head = t3.res.val.head
                            /\ IterSeq(t2.heap, t2.res.val)
                                  = IterSeq(t3.heap, t3.res.val)
        /\ \A h \in 1..Len(lists') :
              /\ Intact(heap', lists'[h])
              /\ IterSeq(heap', lists'[h]) = built'[h]
              /\ lists'[h].head # NULL =>
                    LET t == List_tail(heap', lists'[h])
                    IN  t.res.some
                        /\ IterSeq(t.heap, t.res.val) = Tail(built'[h]) ]_vars

\* L2 and L3 were appended onto L; L2 has been dropped, its teardown
\* stopped at L's head, and L and L3 are alive
C9_Witness ==
    /\ ret.op = "drop" /\ ret.res.some /\ dropst.pc = "idle"
    /\ heap[ret.res.val].st = "live"
    /\ \E n \in Nodes : heap[n].st = "dead"
    /\ \E l, l3 \in LiveHandles :
          /\ lists[l].head = ret.res.val
          /\ lists[l3].head # NULL
          /\ heap[lists[l3].head].next = ret.res.val

\* ----------------------------------------------------------------- C10
\* C10: an iterator over a list built from n values yields them in head to
\* tail order (latest appended first), one per step, then None on every
\* further step without moving; its position is empty exactly when all n
\* have been yielded, and a step that yields moves to the next link of the
\* node it yielded.
C10_IterationOrder ==
    [][ /\ \A i \in 1..Len(iters') :
              LET it == iters'[i]
                  s  == built'[it.src]
              IN  /\ it.out \o Collect(heap', it, MaxNodes + 1) = s
                  /\ (it.next = NULL) <=> (Len(it.out) = Len(s))
        /\ \A i \in LiveIters : NextOp(i) =>
              LET it == iters[i]
                  s  == built[it.src]
                  k  == Len(it.out)
              IN  /\ k < Len(s) =>
                        /\ ret'.res = Some(s[k + 1])
                        /\ iters'[i].out = Append(it.out, s[k + 1])
                        /\ iters'[i].next = heap[it.next].next
                  /\ k >= Len(s) => (ret'.res = None /\ iters' = iters)
                  /\ heap' = heap /\ lists' = lists ]_vars

\* an iterator has yielded the two different elements of a list and then
\* returned None
C10_Witness ==
    /\ ret.op = "next" /\ ~ret.res.some
    /\ \E i \in LiveIters :
          /\ Len(iters[i].out) = 2
          /\ iters[i].out[1] # iters[i].out[2]
          /\ iters[i].out = built[iters[i].src]

\* ----------------------------------------------------------------- C11
\* C11: every call to iter returns an iterator positioned on the head of
\* its list, whatever other iterators exist; a step of one iterator leaves
\* every other iterator, every list handle and the heap (elements, next
\* links and reference counts) unchanged; and at every moment what an
\* iterator has yielded, followed by what it will still yield, is the full
\* sequence of its own list.
C11_IndependentIterators ==
    [][ /\ \A h \in LiveHandles : IterOp(h) =>
              /\ Newest(iters').next = lists[h].head
              /\ Newest(iters').out = <<>>
              /\ \A j \in LiveIters : iters'[j] = iters[j]
              /\ heap' = heap /\ lists' = lists
        /\ \A i \in LiveIters : NextOp(i) =>
              /\ \A j \in LiveIters \ {i} : iters'[j] = iters[j]
              /\ heap' = heap /\ lists' = lists
        /\ \A i \in 1..Len(iters') :
              iters'[i].out \o Collect(heap', iters'[i], MaxNodes + 1)
                  = IterSeq(heap', lists'[iters'[i].src]) ]_vars

\* two iterators over two different lists that share a tail: one has
\* yielded its whole list, the other has taken one step less and is on the
\* shared node
C11_Witness ==
    /\ ret.op = "next"
    /\ \E i, j \in LiveIters :
          /\ lists[iters[i].src].head # NULL
          /\ lists[iters[j].src].head # NULL
          /\ heap[lists[iters[i].src].head].next = lists[iters[j].src].head
          /\ Len(iters[i].out) = 2 /\ iters[i].next = NULL
          /\ iters[j].out = <<>> /\ iters[j].next # NULL

\* ----------------------------------------------------------------- C12
\* the elements of the chain of boxes from node n (at most k of them)
RECURSIVE Chain(_, _, _)
Chain(hp, n, k) ==
    IF n = NULL \/ k = 0 THEN <<>>
    ELSE <<hp[n].elem>> \o Chain(hp, hp[n].next, k - 1)

ChainSeq(hp, n) == Chain(hp, n, MaxNodes + 1)

Rev(s) == [i \in 1..Len(s) |-> s[Len(s) + 1 - i]]

\* C12: on an owning stack (first.rs, second.rs), under any interleaving of
\* push and pop, pop returns the most recently pushed element not yet
\* popped, and the stack holds the remaining ones in reverse push order;
\* pop on an empty stack returns None, leaves the stack empty and changes
\* nothing, so that later pushes and pops behave the same way.
C12_StackLIFO ==
    [][ /\ StackPop =>
            /\ ret'.res = IF built[1] = <<>> THEN None
                          ELSE Some(built[1][Len(built[1])])
            /\ built[1] = <<>> => (Own'.head = NULL /\ heap' = heap)
        /\ (lists' # <<>> /\ Own'.kind \in Stacks) =>
              ChainSeq(heap', Own'.head) = Rev(built'[1])
      ]_vars

\* a pop has returned an element while the element pushed first, before
\* two later pushes and their pops, is still on the stack
C12_Witness ==
    /\ lists # <<>> /\ Own.kind \in Stacks
    /\ ret.op = "pop" /\ ret.res.some
    /\ Own.head = 1
    /\ heap[2].st = "dead" /\ heap[3].st = "dead"

\* ----------------------------------------------------------------- C13
\* C13: on the raw-pointer queue (fifth_unsafe.rs), under any interleaving
\* of push and pop, pop returns the oldest element not yet popped and the
\* queue holds the remaining ones in push order; pop on an empty queue
\* returns None; this goes on after the queue has become empty.
C13_QueueFIFO ==
    [][ /\ (QueuePop /\ Own.kind = "fifth_unsafe") =>
              ret'.res = IF built[1] = <<>> THEN None ELSE Some(built[1][1])
        /\ (lists' # <<>> /\ Own'.kind = "fifth_unsafe") =>
              ChainSeq(heap', Own'.head) = built'[1]
      ]_vars

\* the queue was emptied by a pop and has taken a push again
C13_Witness ==
    /\ lists # <<>> /\ Own.kind = "fifth_unsafe"
    /\ ret.op = "push"
    /\ heap[1].st = "dead"
    /\ Own.head = 2 /\ built[1] # <<>>

\* ----------------------------------------------------------------- C14
\* C14: every single-owner container (the stacks of first.rs and second.rs,
\* the queues of fifth_unsafe.rs and fifth.rs) is torn down iteratively: a
\* step releases at most one node, whose next link is detached at that
\* moment, never nested inside the release of another node; and once the
\* container is dropped all its nodes are released.
C14_OwnedTeardownIterative ==
    /\ \A k \in 1..Len(rel) : rel[k].depth = 0 /\ rel[k].next = NULL
    /\ Len(rel) <= 1
    /\ (lists = <<>> /\ dropst.pc = "idle") => LiveNodes(heap) = {}

\* ----------------------------------------------------------------- C15
\* C15: a step of the teardown loop on node n either finds n referenced
\* from elsewhere, and then lowers n's count by exactly one to a positive
\* value, changes nothing else in the heap (n and all its successors keep
\* element, next and count) and ends the loop; or finds n exclusively
\* owned, and then releases n only and goes on with n's successor.
C15_DropStopsAtShared ==
    [][ /\ DropStep =>
              LET n == dropst.head
              IN  IF heap[n].rc > 1
                  THEN /\ heap'[n].rc = heap[n].rc - 1
                       /\ heap'[n].rc >= 1
                       /\ heap'[n].st = "live"
                       /\ heap'[n].elem = heap[n].elem
                       /\ heap'[n].next = heap[n].next
                       /\ \A m \in Nodes \ {n} : heap'[m] = heap[m]
                       /\ rel' = <<>>
                       /\ dropst'.pc = "idle"
                  ELSE /\ heap'[n].st = "dead"
                       /\ \A m \in Nodes \ {n} : heap'[m] = heap[m]
                       /\ Len(rel') = 1 /\ rel'[1].node = n
                       /\ (heap[n].next # NULL =>
                              dropst' = [pc |-> "loop", head |-> heap[n].next])
        /\ \A d \in LiveHandles : DropBegin(d) => heap' = heap ]_vars

\* the teardown released a node and then stopped at a shared node that has
\* a successor
C15_Witness ==
    /\ ret.op = "drop" /\ ret.res.some /\ dropst.pc = "idle"
    /\ rel = <<>>
    /\ heap[ret.res.val].st = "live"
    /\ heap[ret.res.val].next # NULL
    /\ heap[heap[ret.res.val].next].st = "live"
    /\ \E n \in Nodes : heap[n].st = "dead"

\* ----------------------------------------------------------------- C16
\* C16: a node that stays allocated over a step keeps its element and its
\* next link, and every node that a live list handle reaches after a step
\* was reached with the same element and next link before it, unless the
\* step created it.
C16_NodesImmutable ==
    [][ /\ \A n \in Nodes :
              (heap[n].st = "live" /\ heap'[n].st = "live") =>
                  /\ heap'[n].elem = heap[n].elem
                  /\ heap'[n].next = heap[n].next
        /\ \A h \in 1..Len(lists') :
              \A n \in ReachFrom(heap', lists'[h].head) :
                  heap[n].st # "free" =>
                      /\ heap[n].st = "live" /\ heap'[n].st = "live"
                      /\ heap'[n].elem = heap[n].elem
                      /\ heap'[n].next = heap[n].next ]_vars

\* a handle on a two-element list has outlived the teardown of a list that
\* shared nodes with it
C16_Witness ==
    /\ ret.op = "drop" /\ ret.res.some /\ dropst.pc = "idle"
    /\ heap[ret.res.val].st = "live"
    /\ \E h \in LiveHandles :
          /\ Len(built[h]) >= 2
          /\ ret.res.val \in ReachFrom(heap, lists[h].head)

\* ----------------------------------------------------------------- C17
\* the number of next links from n to "no next", or -1 if there are more
\* than k
RECURSIVE Steps(_, _, _)
Steps(hp, n, k) ==
    IF n = NULL THEN 0
    ELSE IF k = 0 THEN -1
    ELSE LET r == Steps(hp, hp[n].next, k - 1)
         IN  IF r < 0 THEN -1 ELSE r + 1

\* C17: following next from any allocated node reaches "no next" (there is
\* no cycle), and from the head of a live list it does so in as many steps
\* as iteration yields elements, which is the number of values the list was
\* built with.
C17_Acyclic ==
    /\ \A n \in LiveNodes(heap) : Steps(heap, n, MaxNodes) >= 1
    /\ \A h \in LiveHandles :
          /\ Steps(heap, lists[h].head, MaxNodes)
                = Len(IterSeq(heap, lists[h]))
          /\ Len(IterSeq(heap, lists[h])) = Len(built[h])

\* a list of three nodes
C17_Witness ==
    \E h \in LiveHandles :
        /\ Len(built[h]) >= 3
        /\ Steps(heap, lists[h].head, MaxNodes) = Len(built[h])

\* ----------------------------------------------------------------- C18
\* C18: a step that is an append allocates exactly one node, and a step
\* that is not an append (new, tail, head, iter, an iterator step, a drop)
\* allocates none; so the nodes ever allocated are as many as the appends.
C18_OnlyAppendAllocates ==
    [][ /\ \A h \in LiveHandles, v \in T : AppendOp(h, v) =>
              Cardinality(Allocated(heap')) = Cardinality(Allocated(heap)) + 1
        /\ (~ \E h \in LiveHandles, v \in T : AppendOp(h, v)) =>
              Allocated(heap') = Allocated(heap) ]_vars

\* an iterator has stepped over a list while two nodes are allocated
C18_Witness ==
    /\ ret.op = "next" /\ ret.res.some
    /\ Cardinality(Allocated(heap)) = 2
    /\ \E i \in LiveIters : Len(iters[i].out) = 2

\* ----------------------------------------------------------------- C19
\* the references to node n: list handles, next links of allocated nodes,
\* and the local head of a running teardown
RefsTo(n) ==
    Cardinality({h \in LiveHandles : lists[h].head = n})
    + Cardinality({m \in LiveNodes(heap) : heap[m].next = n})
    + (IF dropst.pc = "loop" /\ dropst.head = n THEN 1 ELSE 0)

\* C19: the reference count of every allocated node is the number of list
\* handles on it plus the number of allocated nodes whose next it is (plus
\* the reference held by a running teardown); it is at least one; and a
\* node is deallocated exactly when its count is zero.
C19_RefCountAccounting ==
    \A n \in Allocated(heap) :
        /\ heap[n].st = "live" => (heap[n].rc = RefsTo(n) /\ heap[n].rc >= 1)
        /\ (heap[n].st = "dead") <=> (heap[n].rc = 0)
        /\ (heap[n].st = "dead") <=> (RefsTo(n) = 0)

\* between operations, a node is referenced by a handle and by two nodes
C19_Witness ==
    /\ dropst.pc = "idle"
    /\ \E n \in LiveNodes(heap) :
          /\ heap[n].rc = 3
          /\ Cardinality({m \in LiveNodes(heap) : heap[m].next = n}) = 2

\* ----------------------------------------------------------------- C20
\* C20: after every push and pop of a queue (fifth_unsafe.rs, fifth.rs) the
\* tail is null/None exactly when the head is None; a non-null tail is the
\* last node of the chain from the head, the only one without a next, and
\* it is allocated: push never writes through a pointer to a released node.
C20_TailInvariant ==
    (lists # <<>> /\ Own.kind \in Queues) =>
        /\ (Own.tail = NULL) <=> (Own.head = NULL)
        /\ Own.tail # NULL =>
              /\ heap[Own.tail].st = "live"
              /\ Own.tail \in ReachFrom(heap, Own.head)
              /\ \A n \in ReachFrom(heap, Own.head) :
                    /\ heap[n].st = "live"
                    /\ (heap[n].next = NULL) <=> (n = Own.tail)

\* a pop has left two nodes in the queue, the second of them written
\* through the tail pointer
C20_Witness ==
    /\ lists # <<>> /\ Own.kind = "fifth_unsafe"
    /\ ret.op = "pop" /\ ret.res.some
    /\ Own.head = 2 /\ Own.tail = 3
    /\ heap[1].st = "dead"

\* ----------------------------------------------------------------- C21
\* C21: on the generic stack (second.rs) peek returns the element the next
\* pop would return, None on an empty stack, and changes nothing; a write
\* through peek_mut replaces the value of the head element only: the stack
\* has the same nodes and links, every other element is unchanged, and the
\* following peek and pop return the written value.
C21_PeekFrame ==
    [][ /\ PeekOp =>
            /\ ret'.res = Second_pop(heap, Own).res
            /\ ret'.res = IF built[1] = <<>> THEN None
                          ELSE Some(built[1][Len(built[1])])
            /\ heap' = heap /\ lists' = lists
        /\ \A v \in T : PeekMutOp(v) =>
            /\ lists' = lists
            /\ ChainSeq(heap', Own.head) =
                  IF Own.head = NULL THEN <<>>
                  ELSE <<v>> \o Tail(ChainSeq(heap, Own.head))
            /\ \A n \in Nodes : /\ heap'[n].next = heap[n].next
                                /\ heap'[n].st = heap[n].st
            /\ Own.head # NULL =>
                  /\ Second_peek(heap', Own') = Some(v)
                  /\ Second_pop(heap', Own').res = Some(v)
      ]_vars

\* a write through peek_mut has changed the head of a stack of two, whose
\* other element differs from the written value
C21_Witness ==
    /\ lists # <<>> /\ Own.kind = "second"
    /\ ret.op = "peek_mut" /\ ret.res.some
    /\ Own.head # NULL
    /\ heap[Own.head].elem # ret.res.val
    /\ heap[Own.head].next # NULL
    /\ heap[heap[Own.head].next].elem # heap[Own.head].elem

\* ----------------------------------------------------------------- C22
\* the order in which a container of that kind gives back the elements s
\* (s in push order)
Order(kind, s) == IF kind \in Stacks THEN Rev(s) ELSE s

\* pop on a container of either kind
PopOf(hp, c) == IF c.kind = "second" THEN Second_pop(hp, c) ELSE Queue_pop(hp, c)

\* the results of successive pops on container c (at most k of them)
RECURSIVE PopSeq(_, _, _)
PopSeq(hp, c, k) ==
    LET r == PopOf(hp, c)
    IN  IF k = 0 \/ ~r.res.some THEN <<>>
        ELSE <<r.res.val>> \o PopSeq(r.heap, r.self, k - 1)

\* C22: on the generic stack (second.rs) and the raw-pointer queue
\* (fifth_unsafe.rs), what an IntoIter has yielded followed by what
\* successive pops on its container would return is the pushed elements in
\* the container's order (LIFO for the stack, FIFO for the queue), and its
\* next returns None exactly when all were yielded.  The same holds of an
\* Iter, which yields by following the nodes: what it has yielded followed
\* by the elements from its position is what successive pops on the
\* container would return; creating, stepping and ending an Iter changes
\* neither the container nor any node, so an Iter created after a further
\* push yields the old elements and the new one.
C22_IteratorsRefinePop ==
    [][ /\ \A i \in 1..Len(iters) : IntoIterNext(i) =>
            /\ ret'.res = PopOf(heap, iters[i].list).res
            /\ ~ret'.res.some <=>
                  iters[i].out = Order(iters[i].list.kind, built[1])
        /\ \A i \in 1..Len(iters) : ViewIterNext(i) =>
            ~ret'.res.some <=> iters[i].out = Order(Own.kind, built[1])
        /\ (ViewIterOp \/ \E i \in 1..Len(iters) :
                             ViewIterNext(i) \/ ViewIterEnd(i)) =>
              heap' = heap /\ lists' = lists
        /\ \A i \in 1..Len(iters') : iters'[i].live =>
              IF iters'[i].kind = "into_iter"
              THEN iters'[i].out
                     \o PopSeq(heap', iters'[i].list, MaxNodes + 1)
                   = Order(iters'[i].list.kind, built'[1])
              ELSE /\ iters'[i].out \o ChainSeq(heap', iters'[i].next)
                      = PopSeq(heap', Own', MaxNodes + 1)
                   /\ PopSeq(heap', Own', MaxNodes + 1)
                      = Order(Own'.kind, built'[1])
      ]_vars

\* an Iter has yielded the two elements of the container and ended; after
\* a further push an IntoIter has yielded these two and the new one, in
\* the container's order, and then None
C22_Witness ==
    /\ Len(iters) = 2
    /\ iters[1].kind = "iter" /\ ~iters[1].live /\ Len(iters[1].out) = 2
    /\ iters[2].kind = "into_iter" /\ iters[2].live
    /\ Len(iters[2].out) = 3
    /\ iters[2].out = IF iters[2].list.kind = "second"
                      THEN <<iters[2].out[1]>> \o iters[1].out
                      ELSE iters[1].out \o <<iters[2].out[3]>>
    /\ iters[1].out[1] # iters[1].out[2]
    /\ ret = Ret("next", None)

====
